---- MODULE Spec2Model ----
(***************************************************************************)
(* Position netting and order reconciliation of the TradingView -> cTrader *)
(* webhook service (src/tradingview_ctrader_webhook.py).                   *)
(*                                                                         *)
(* One webhook request is followed from the HTTP handler through the       *)
(* delayed call of process_order, the reconcile (list positions) request,  *)
(* the callback chain on_reconcile_received -> place_order, and the        *)
(* responses to the close / new-order requests it sent.                    *)
(*                                                                         *)
(* Volumes.  The broker carries volumes as integers (hundredths of a      *)
(* unit); the service works in floats: position.tradeData.volume / 100 on  *)
(* the way in, int(volume * 100) on the way out.  The model keeps the      *)
(* service-side volumes as whole multiples of 1/Grid unit and computes     *)
(* both conversions on them; int() truncates when Grid does not divide     *)
(* 100.  Positions hold whole units and intents multiples of 1/Grid unit:  *)
(* on these inputs Python's float arithmetic gives the same requests as    *)
(* the exact arithmetic used here.  Volumes on which IEEE rounding shows   *)
(* (0.29 * 100 = 28.999...) are outside the model.                         *)
(***************************************************************************)
EXTENDS Integers, Sequences, FiniteSets, TLC

\* ---------------------------------------------------------------- bounds
MaxPositions == 3      \* positions in the broker's book (planner runs)
MaxUnits == 3          \* largest position volume, in whole units
MaxIntentVolume == 5   \* largest intent volume, in grid units
Grid == 2              \* grid steps per unit of volume
AsyncPositions == 2    \* positions in the broker's book (dispatch runs)
AsyncIntentVolume == 3 \* largest intent volume in dispatch runs, grid units
MaxListenerCalls == 2  \* order calls of the basic-auth listener in one run
MaxListenerVolume == 2 \* largest volume a request to that listener names
MaxAppOrders == 2      \* orders the simple service sends in one run
MaxAppQuantity == 1    \* largest quantity a request to it names, grid units
MaxLivePositions == 1  \* positions in the broker's book (termination runs)
MaxRacePositions == 1  \* positions in the broker's book (concurrent runs)
MaxRaceUnits == 1      \* largest position volume there, in whole units
MaxRaceVolume == 3     \* largest intent volume there, in grid units

\* ------------------------------------------------------ program constants
LotScale == 100        \* "/ 100" and "* 100" of the volume conversions
Symbol == 1            \* the symbolId the webhook request names
OtherSymbol == 2       \* some other symbolId in the broker's book

Sides == {"BUY", "SELL"}
None == "None"

\* position.tradeData.volume / 100, as a service-side volume in grid steps
Lots(wire) == (wire * Grid) \div LotScale

\* int(volume * 100), the volume field of an outgoing request
Encode(volume) == (volume * LotScale) \div Grid

\* ---------------------------------------------------------------- state
VARIABLES
    book,              \* what the broker holds: sequence of positions
    http,              \* status of the HTTP response to the webhook, 0 = none
    delayed,           \* reactor.callLater queue: pending process_order calls
    accepted,          \* return value of send_new_order_request
    phase,             \* where the reconciliation stands
    intent,            \* arguments of process_order
    query,             \* how the position query ended
    snapshot,          \* existing_positions handed to place_order
    net_volume,        \* place_order's net_volume after the walk
    same_side_volume,  \* place_order's same_side_volume after the walk
    requests,          \* every request the service built, in issue order
    inflight,          \* indices of requests whose Deferred has not fired
    handled,           \* indices of requests -> the callback that logged it
    received,          \* the HTTP request the webhook handler was given
    reply,             \* body of the HTTP response
    is_connected,      \* CTradingAPI.is_connected
    session,           \* how far the broker session's authorisation got
    account,           \* the broker's positions as requests are applied
    runs,              \* the reconciliations started, when several run
    executed,          \* indices of requests the broker has applied
    is_authenticated,  \* app.py's global is_authenticated
    flask              \* app.py's request thread: where it stands, and
                       \* what is_authenticated was when the request came

vars == <<book, http, delayed, accepted, phase, intent, query, snapshot,
          net_volume, same_side_volume, requests, inflight, handled,
          received, reply, is_connected, session, account, runs,
          executed, is_authenticated, flask>>

NoIntent == [symbolId |-> 0, tradeSide |-> None, volume |-> 0]

\* ------------------------------------------------------- broker's book
OpenPosition(side, units) ==
    [symbolId |-> Symbol, tradeSide |-> side, volume |-> units * LotScale,
     positionStatus |-> "OPEN"]

ForeignPositions ==
    { [symbolId |-> OtherSymbol, tradeSide |-> "BUY", volume |-> LotScale,
       positionStatus |-> "OPEN"],
      [symbolId |-> Symbol, tradeSide |-> "SELL", volume |-> LotScale,
       positionStatus |-> "CLOSED"] }

\* a book: positions in the order the broker lists them, ids 1..n
WithIds(shape) ==
    [i \in 1..Len(shape) |->
        [positionId |-> i, symbolId |-> shape[i].symbolId,
         tradeSide |-> shape[i].tradeSide, volume |-> shape[i].volume,
         positionStatus |-> shape[i].positionStatus]]

Books(n, kinds) ==
    { WithIds(shape) : shape \in UNION { [1..k -> kinds] : k \in 0..n } }

PlanBooks ==
    Books(MaxPositions,
          { OpenPosition(s, u) : s \in Sides, u \in 1..MaxUnits }
              \cup ForeignPositions)

AsyncBooks ==
    Books(AsyncPositions, { OpenPosition(s, 1) : s \in Sides })

\* ------------------------------------------------------------- planner
\* float("nan"), which float() accepts as a volume.  Every other volume of
\* the model is a number >= 0, and NaN is told apart from them by this
\* value; the operators below are Python's on floats: a comparison with
\* NaN is false, a sum with NaN is NaN
NaN == 0 - 1

Le(a, b) == a # NaN /\ b # NaN /\ a <= b

Gt(a, b) == a # NaN /\ b # NaN /\ a > b

Add(a, b) == IF a = NaN \/ b = NaN THEN NaN ELSE a + b

Sub(a, b) == IF a = NaN \/ b = NaN THEN NaN ELSE a - b

OppositeSide(trade_side) == IF trade_side = "BUY" THEN "SELL" ELSE "BUY"

\* the reconcile response: either a message whose position list can be
\* read, or one that Protobuf.extract / .position cannot handle
ReconcileRes(positions) == [extractable |-> TRUE, position |-> positions]
UnreadableRes == [extractable |-> FALSE, position |-> <<>>]

RECURSIVE Filter(_, _, _)
\* variant: the status of a position is not looked at
Filter_AnyStatus(positions, i, symbol_id) ==
    IF i > Len(positions) THEN <<>>
    ELSE LET position == positions[i]
             rest == Filter(positions, i + 1, symbol_id)
         IN  IF position.symbolId = symbol_id
             THEN <<position>> \o rest
             ELSE rest

Filter(positions, i, symbol_id) ==
    IF i > Len(positions) THEN <<>>
    ELSE LET position == positions[i]
             rest == Filter(positions, i + 1, symbol_id)
         IN  IF position.symbolId = symbol_id
                  /\ position.positionStatus = "OPEN"
             THEN <<position>> \o rest
             ELSE rest

\* what the first stage of the reconcile chain hands to place_order:
\* Python's None, or a list of positions
NoPositions == [isNone |-> TRUE, positions |-> <<>>]
PositionList(positions) == [isNone |-> FALSE, positions |-> positions]

\* the except branch answers with an empty list
on_reconcile_received(response, symbol_id) ==
    IF response.extractable
    THEN PositionList(Filter(response.position, 1, symbol_id))
    ELSE PositionList(<<>>)

\* errback: logs and returns None, which the next callback receives
on_error(failure) == NoPositions

\* the walk's locals: net_volume, same_side_volume, the calls made to
\* send_close_position_request so far, and whether the loop hit "break"
WalkStart(volume) ==
    [net |-> volume, same |-> 0, closes |-> <<>>, broke |-> FALSE]

CloseCall(position_id, volume) ==
    [positionId |-> position_id, volume |-> volume]

\* variant: a same-side position is closed and not counted for the order
SameSideStep_NotCounted(st, position) ==
    [st EXCEPT !.closes = Append(@, CloseCall(position.positionId,
                                              Lots(position.volume)))]

SameSideStep(st, position) ==
    [st EXCEPT !.same = @ + Lots(position.volume),
               !.closes = Append(@, CloseCall(position.positionId,
                                              Lots(position.volume)))]

\* variant: the partial branch closes the whole position
OppositeStep_WholePosition(st, position) ==
    LET position_volume == Lots(position.volume)
    IN  IF Le(position_volume, st.net)
        THEN [st EXCEPT !.closes = Append(@, CloseCall(position.positionId,
                                                       position_volume)),
                        !.net = Sub(@, position_volume)]
        ELSE [st EXCEPT !.closes = Append(@, CloseCall(position.positionId,
                                                       position_volume)),
                        !.net = 0,
                        !.broke = TRUE]

\* variant: no comparison, the position is always closed for net_volume
OppositeStep_NoCompare(st, position) ==
    [st EXCEPT !.closes = Append(@, CloseCall(position.positionId, st.net)),
               !.net = 0,
               !.broke = TRUE]

\* variant: a full closure does not reduce net_volume
OppositeStep_KeepNet(st, position) ==
    LET position_volume == Lots(position.volume)
    IN  IF Le(position_volume, st.net)
        THEN [st EXCEPT !.closes = Append(@, CloseCall(position.positionId,
                                                       position_volume))]
        ELSE [st EXCEPT !.closes = Append(@, CloseCall(position.positionId,
                                                       st.net)),
                        !.net = 0,
                        !.broke = TRUE]

OppositeStep(st, position) ==
    LET position_volume == Lots(position.volume)
    IN  IF Le(position_volume, st.net)
        THEN [st EXCEPT !.closes = Append(@, CloseCall(position.positionId,
                                                       position_volume)),
                        !.net = Sub(@, position_volume)]
        ELSE [st EXCEPT !.closes = Append(@, CloseCall(position.positionId,
                                                       st.net)),
                        !.net = 0,
                        !.broke = TRUE]

RECURSIVE Walk(_, _, _, _)
Walk(existing_positions, i, trade_side, st) ==
    IF i > Len(existing_positions) \/ st.broke THEN st
    ELSE LET position == existing_positions[i]
         IN  Walk(existing_positions, i + 1, trade_side,
                  IF position.tradeSide = trade_side
                  THEN SameSideStep(st, position)
                  ELSE IF position.tradeSide = OppositeSide(trade_side)
                       THEN OppositeStep(st, position)
                       ELSE st)

\* variant: the intent's own remainder is left out of the order
total_volume_SameOnly(st) == st.same

total_volume(st) == Add(st.net, st.same)

\* variant: the test looks at net_volume only
PlacesOrder_NetOnly(st) == Gt(st.net, 0)

PlacesOrder(st) == Gt(total_volume(st), 0)

\* ------------------------------------------------------------ requests
ReconcileReq(raised) ==
    [kind |-> "reconcile", positionId |-> 0, symbolId |-> 0,
     tradeSide |-> None, volume |-> 0, wire |-> 0, raised |-> raised]

\* send_close_position_request(position_id, volume); raised: client.send
\* threw, or int(volume * 100) did as it does on NaN, which the function
\* swallows
ClosePositionReq(call, raised) ==
    [kind |-> "close", positionId |-> call.positionId, symbolId |-> 0,
     tradeSide |-> None, volume |-> call.volume,
     wire |-> IF call.volume = NaN THEN 0 ELSE Encode(call.volume),
     raised |-> raised \/ call.volume = NaN]

NewOrderReq(symbol_id, trade_side, volume, raised) ==
    [kind |-> "order", positionId |-> 0, symbolId |-> symbol_id,
     tradeSide |-> trade_side, volume |-> volume,
     wire |-> Encode(volume), raised |-> raised]

\* the requests place_order builds, in order; faults: which of its sends
\* throw, counted from 1 within this call
\* variant: the new order goes out ahead of the closes
Dispatch_OrderFirst(st, symbol_id, trade_side, faults) ==
    LET closes == [k \in 1..Len(st.closes) |->
                      ClosePositionReq(st.closes[k], (k + 1) \in faults)]
    IN  IF PlacesOrder(st)
        THEN <<NewOrderReq(symbol_id, trade_side, total_volume(st),
                           1 \in faults)>> \o closes
        ELSE closes

\* variant: the positions are queried once more ahead of the requests
Dispatch_Requery(st, symbol_id, trade_side, faults) ==
    LET closes == [k \in 1..Len(st.closes) |->
                      ClosePositionReq(st.closes[k], k \in faults)]
    IN  <<ReconcileReq(FALSE)>> \o
        (IF PlacesOrder(st)
         THEN Append(closes, NewOrderReq(symbol_id, trade_side,
                                         total_volume(st),
                                         (Len(st.closes) + 1) \in faults))
         ELSE closes)

Dispatch(st, symbol_id, trade_side, faults) ==
    LET closes == [k \in 1..Len(st.closes) |->
                      ClosePositionReq(st.closes[k], k \in faults)]
    IN  IF PlacesOrder(st)
        THEN Append(closes, NewOrderReq(symbol_id, trade_side,
                                        total_volume(st),
                                        (Len(st.closes) + 1) \in faults))
        ELSE closes

\* a Deferred fires its own callback chain only
\* variant: a fired Deferred stays among the pending ones
Settle_Keep(pending, i) == pending

Settle(pending, i) == pending \ {i}

\* what the handler of a response sends in turn: nothing
\* variant: a request the broker rejected is sent again
FollowUp_Resend(req, outcome) ==
    IF outcome = "brokerError" THEN <<req>> ELSE <<>>

FollowUp(req, outcome) == <<>>

Handler(req, outcome) ==
    IF outcome = "failure" THEN "on_error"
    ELSE IF req.kind = "close" THEN "on_position_closed"
    ELSE "on_order_placed"

\* -------------------------------------------------------------- actions
\* str.upper() on the trade sides a request may carry
Upper(str) ==
    CASE str = "buy" -> "BUY"
      [] str = "sell" -> "SELL"
      [] OTHER -> str

RequiredFields == {"symbolId", "tradeSide", "volume"}

\* a request without an Authorization header
NoAuthorization == [present |-> FALSE, username |-> "", password |-> ""]

\* a POST /webhook?token=... request: the token, the keys its JSON body
\* has, and the values of tradeSide and volume (numeric: float() accepts
\* the volume)

Request(token, fields, trade_side, volume, numeric) ==
    [token |-> token, authorization |-> NoAuthorization, fields |-> fields,
     symbolId |-> Symbol, tradeSide |-> trade_side, volume |-> volume,
     numeric |-> numeric]

NoRequest == Request("none", {}, None, 0, TRUE)

\* well-formed requests with volumes up to max, and one request for each
\* way of being turned down
Requests(max) ==
    { Request("good", RequiredFields, s, v, TRUE) :
          s \in Sides, v \in 1..max }
    \cup { Request("good", RequiredFields, s, 1, TRUE) :
               s \in {"buy", "sell"} }
    \cup { Request(t, RequiredFields, "BUY", 1, TRUE) : t \in {"bad", "none"} }
    \cup { Request("good", RequiredFields \ F, "BUY", 1, TRUE) :
               F \in {{"symbolId"}, {"tradeSide"}, {"volume"},
                      RequiredFields} }
    \cup { Request("good", RequiredFields, "HOLD", 1, TRUE),
           Request("good", RequiredFields, "SELL", 0, TRUE),
           Request("good", RequiredFields, "SELL", 0, FALSE),
           Request("good", RequiredFields, "HOLD", 0, FALSE),
           Request("good", RequiredFields, "BUY", NaN, TRUE) }

\* the requests that pass every check of the handler, upper case only
ValidRequests(max) ==
    { Request("good", RequiredFields, s, v, TRUE) :
          s \in Sides, v \in 1..max }

InitWith(books) ==
    /\ book \in books
    /\ http = 0
    /\ delayed = <<>>
    /\ accepted = None
    /\ phase = "idle"
    /\ intent = NoIntent
    /\ query = None
    /\ snapshot = NoPositions
    /\ net_volume = 0
    /\ same_side_volume = 0
    /\ requests = <<>>
    /\ inflight = {}
    /\ handled = {}
    /\ received = NoRequest
    /\ reply = None
    /\ is_connected = FALSE
    /\ session = "idle"
    /\ account = book
    /\ runs = <<>>
    /\ executed = {}
    /\ is_authenticated = FALSE
    /\ flask = [at |-> "idle", authenticated |-> FALSE]

Init == InitWith(AsyncBooks)

InitPlan == InitWith(PlanBooks)

\* requires_auth, then webhook: the status and body of the answer
Answer(req) ==
    IF req.token = "none" \/ req.token # "good"
    THEN [status |-> 401, body |-> "Unauthorized"]
    ELSE IF req.fields = {}
    THEN [status |-> 400, body |-> "Invalid data"]
    ELSE IF ~(RequiredFields \subseteq req.fields)
    THEN [status |-> 400, body |-> "Missing required fields"]
    ELSE IF ~req.numeric
    THEN [status |-> 500, body |-> "Internal server error"]
    ELSE IF Upper(req.tradeSide) \notin Sides
    THEN [status |-> 400, body |-> "Trade side must be 'BUY' or 'SELL'"]
    ELSE IF Le(req.volume, 0)
    THEN [status |-> 400, body |-> "Volume must be a positive number"]
    ELSE [status |-> 202, body |-> "Order processing initiated"]

webhook(req) ==
    /\ phase = "idle"
    /\ received' = req
    /\ http' = Answer(req).status
    /\ reply' = Answer(req).body
    /\ IF Answer(req).status = 202
       THEN /\ delayed' = Append(delayed,
                                 [symbolId |-> req.symbolId,
                                  tradeSide |-> Upper(req.tradeSide),
                                  volume |-> req.volume])
            /\ phase' = "scheduled"
       ELSE /\ phase' = "rejected"
            /\ UNCHANGED delayed
    /\ UNCHANGED <<is_authenticated, flask>>
    /\ UNCHANGED <<book, accepted, intent, query, snapshot, net_volume,
                   same_side_volume, requests, inflight, handled,
                   is_connected, session,
                   account, runs, executed>>

\* the client's connected callback: the application authorisation request
\* goes out
connected ==
    /\ ~is_connected
    /\ is_connected' = TRUE
    /\ session' = "application_auth"
    /\ UNCHANGED <<is_authenticated, flask>>
    /\ UNCHANGED <<book, http, delayed, accepted, phase, intent, query,
                   snapshot, net_volume, same_side_volume, requests,
                   inflight, handled, received, reply,
                   account, runs, executed>>

\* ProtoOAApplicationAuthRes is answered with the account authorisation
\* request, ProtoOAAccountAuthRes is logged
on_message_received(payloadType) ==
    /\ is_connected
    /\ \/ /\ payloadType = "ProtoOAApplicationAuthRes"
          /\ session = "application_auth"
          /\ session' = "account_auth"
       \/ /\ payloadType = "ProtoOAAccountAuthRes"
          /\ session = "account_auth"
          /\ session' = "authorized"
    /\ UNCHANGED <<is_authenticated, flask>>
    /\ UNCHANGED <<book, http, delayed, accepted, phase, intent, query,
                   snapshot, net_volume, same_side_volume, requests,
                   inflight, handled, received, reply, is_connected,
                   account, runs, executed>>

\* what the disconnected callback sends again of the requests that were
\* issued and not answered: nothing, it only schedules a reconnect
\* variant: the oldest unanswered request is sent again
Resend_Unanswered(reqs, pending) ==
    IF pending = {} THEN <<>>
    ELSE <<reqs[CHOOSE i \in pending : \A j \in pending : i <= j]>>

Resend(reqs, pending) == <<>>

disconnected ==
    /\ is_connected
    /\ is_connected' = FALSE
    /\ session' = "lost"
    /\ requests' = requests \o Resend(requests, inflight)
    /\ UNCHANGED <<is_authenticated, flask>>
    /\ UNCHANGED <<book, http, delayed, accepted, phase, intent, query,
                   snapshot, net_volume, same_side_volume, inflight,
                   handled, received, reply,
                   account, runs, executed>>

\* what send_new_order_request returns once get_existing_positions is back
\* variant: the return that follows the addErrback is missing
Acknowledge_NoReturn(raised) == IF raised THEN "False" ELSE None

Acknowledge(raised) == IF raised THEN "False" ELSE "True"

\* the reactor runs the delayed call: process_order ->
\* send_new_order_request -> get_existing_positions.  raised: the send of
\* the reconcile request throws, get_existing_positions returns None and
\* None.addCallback lands in send_new_order_request's except branch
process_order(raised) ==
    /\ delayed # <<>>
    /\ intent' = Head(delayed)
    /\ delayed' = Tail(delayed)
    /\ requests' = Append(requests, ReconcileReq(raised))
    /\ accepted' = Acknowledge(raised)
    /\ IF raised
       THEN /\ phase' = "failed"
            /\ query' = "raised"
            /\ UNCHANGED inflight
       ELSE /\ phase' = "querying"
            /\ inflight' = inflight \cup {Len(requests) + 1}
            /\ UNCHANGED query
    /\ UNCHANGED <<is_authenticated, flask>>
    /\ UNCHANGED <<book, http, snapshot, net_volume, same_side_volume,
                   handled, received, reply, is_connected, session,
                   account, runs, executed>>

\* the reconcile Deferred fires and runs its chain in one reactor turn:
\* on_reconcile_received / on_error, then place_order, then on_error.
\*   outcome "positions"     the broker's position list arrives
\*           "unextractable" a message on_reconcile_received cannot read
\*           "failure"       the Deferred fails (timeout, connection lost)
reconcile_resolved(outcome, faults) ==
    /\ phase = "querying"
    /\ \E i \in inflight :
        /\ requests[i].kind = "reconcile"
        /\ LET existing_positions ==
                   IF outcome = "failure" THEN on_error(outcome)
                   ELSE on_reconcile_received(
                            IF outcome = "positions" THEN ReconcileRes(book)
                            ELSE UnreadableRes,
                            intent.symbolId)
           IN  /\ query' = outcome
               /\ snapshot' = existing_positions
               /\ handled' = handled \cup
                      {[req |-> i, outcome |-> outcome,
                        handler |-> IF outcome = "failure"
                                    THEN "on_error"
                                    ELSE "on_reconcile_received"]}
               /\ IF existing_positions.isNone
                  THEN /\ phase' = "failed"
                       /\ inflight' = Settle(inflight, i)
                       /\ UNCHANGED <<net_volume, same_side_volume,
                                      requests>>
                  ELSE LET st == Walk(existing_positions.positions, 1,
                                      intent.tradeSide,
                                      WalkStart(intent.volume))
                           out == Dispatch(st, intent.symbolId,
                                           intent.tradeSide, faults)
                           base == Len(requests)
                       IN  /\ faults \subseteq 1..Len(out)
                           /\ net_volume' = st.net
                           /\ same_side_volume' = st.same
                           /\ requests' = requests \o out
                           /\ inflight' = Settle(inflight, i) \cup
                                  { base + k : k \in
                                      { j \in 1..Len(out) :
                                          ~out[j].raised } }
                           /\ phase' =
                                  IF \E k \in 1..Len(out) :
                                        /\ out[k].kind = "order"
                                        /\ out[k].raised
                                  THEN "errored"
                                  ELSE "placed"
    /\ UNCHANGED <<is_authenticated, flask>>
    /\ UNCHANGED <<book, http, delayed, accepted, intent, received, reply,
                   is_connected, session,
                   account, runs, executed>>

\* the Deferred of one close / new-order request fires
\*   outcome "ack"         the broker's confirmation
\*           "brokerError" the broker's error message (also a response)
\*           "failure"     the Deferred fails (timeout, connection lost)
Outcomes == {"ack", "brokerError", "failure"}

response(i, outcome) ==
    /\ i \in inflight
    /\ requests[i].kind # "reconcile"
    /\ inflight' = Settle(inflight, i)
    /\ requests' = requests \o FollowUp(requests[i], outcome)
    /\ handled' = handled \cup
           {[req |-> i, outcome |-> outcome,
             handler |-> Handler(requests[i], outcome)]}
    /\ UNCHANGED <<is_authenticated, flask>>
    /\ UNCHANGED <<book, http, delayed, accepted, phase, intent, query,
                   snapshot, net_volume, same_side_volume, received, reply,
                   is_connected, session,
                   account, runs, executed>>

MaxSends == AsyncPositions + 1

Next ==
    \/ \E req \in Requests(AsyncIntentVolume) : webhook(req)
    \/ \E raised \in BOOLEAN : process_order(raised)
    \/ \E outcome \in {"positions", "unextractable", "failure"},
          faults \in SUBSET (1..MaxSends) :
          reconcile_resolved(outcome, faults)
    \/ \E i \in 1..Len(requests), outcome \in Outcomes :
          response(i, outcome)
    \/ connected
    \/ \E payloadType \in {"ProtoOAApplicationAuthRes",
                            "ProtoOAAccountAuthRes"} :
          on_message_received(payloadType)
    \/ disconnected

Spec == Init /\ [][Next]_vars

\* the same service on a reactor that runs every delayed call and with a
\* broker session that stays up and resolves every request it was sent,
\* with a response or a failure
LiveBooks ==
    Books(MaxLivePositions, { OpenPosition(s, 1) : s \in Sides })

InitLive == InitWith(LiveBooks)

MaxLiveSends == MaxLivePositions + 1

NextLive ==
    \/ \E req \in Requests(AsyncIntentVolume) : webhook(req)
    \/ \E raised \in BOOLEAN : process_order(raised)
    \/ \E outcome \in {"positions", "unextractable", "failure"},
          faults \in SUBSET (1..MaxLiveSends) :
          reconcile_resolved(outcome, faults)
    \/ \E i \in 1..Len(requests), outcome \in Outcomes :
          response(i, outcome)

Fairness ==
    /\ WF_vars(\E raised \in BOOLEAN : process_order(raised))
    /\ WF_vars(\E outcome \in {"positions", "unextractable", "failure"},
                  faults \in SUBSET (1..MaxLiveSends) :
                  reconcile_resolved(outcome, faults))
    /\ WF_vars(\E i \in 1..Len(requests), outcome \in Outcomes :
                  response(i, outcome))

SpecLive == InitLive /\ [][NextLive]_vars /\ Fairness

\* the planner on a wide range of books, with a transport that accepts
\* every request place_order sends
NextPlan ==
    \/ \E req \in ValidRequests(MaxIntentVolume) : webhook(req)
    \/ \E raised \in BOOLEAN : process_order(raised)
    \/ \E outcome \in {"positions", "unextractable", "failure"} :
          reconcile_resolved(outcome, {})

SpecPlan == InitPlan /\ [][NextPlan]_vars

\* ------------------------------------------- the basic-auth listener
\* webhook_listener.py: the same endpoint behind HTTP basic authentication,
\* placing one market order per request without looking at positions
WEBHOOK_USER == "test_user"
WEBHOOK_PASS == "test_pass"

Authorization(username, password) ==
    [present |-> TRUE, username |-> username, password |-> password]

\* variant: only the user name is compared
check_auth_UserOnly(username, password) == username = WEBHOOK_USER

check_auth(username, password) ==
    username = WEBHOOK_USER /\ password = WEBHOOK_PASS

authenticate ==
    [status |-> 401,
     body |-> "Could not verify your access level for that URL.\nYou have to login with proper credentials",
     calls |-> <<>>]

\* a POST /webhook with an Authorization header (or none) and a JSON body
ListenerRequest(auth, fields, symbol_id, trade_side, volume, numeric) ==
    [token |-> "none", authorization |-> auth, fields |-> fields,
     symbolId |-> symbol_id, tradeSide |-> trade_side, volume |-> volume,
     numeric |-> numeric]

Authorizations ==
    {NoAuthorization}
    \cup { Authorization(u, p) : u \in {WEBHOOK_USER, "intruder"},
                                 p \in {WEBHOOK_PASS, "guess"} }

ListenerRequests(max) ==
    { ListenerRequest(a, RequiredFields, Symbol, s, v, TRUE) :
          a \in Authorizations,
          s \in {"BUY", "SELL", "buy", "sell", "HOLD"},
          v \in 0..max }
    \cup { ListenerRequest(Authorization(WEBHOOK_USER, WEBHOOK_PASS),
                           RequiredFields \ F, Symbol, s, 1, TRUE) :
               F \in {{"symbolId"}, {"tradeSide"}, {"volume"},
                      RequiredFields},
               s \in {"BUY", "HOLD"} }
    \cup { ListenerRequest(Authorization(WEBHOOK_USER, WEBHOOK_PASS),
                           RequiredFields, OtherSymbol, "SELL", 1, TRUE),
           ListenerRequest(Authorization(WEBHOOK_USER, WEBHOOK_PASS),
                           RequiredFields, Symbol, "BUY", 0, FALSE) }

\* the arguments webhook calls sendProtoOANewOrderReq with
\* variant: the trade side is passed on as it came
OrderCall_RawSide(req) ==
    [symbolId |-> req.symbolId, orderType |-> "MARKET",
     tradeSide |-> req.tradeSide, volume |-> req.volume,
     numeric |-> req.numeric]

OrderCall(req) ==
    [symbolId |-> req.symbolId, orderType |-> "MARKET",
     tradeSide |-> Upper(req.tradeSide), volume |-> req.volume,
     numeric |-> req.numeric]

\* sendProtoOANewOrderReq: the request it builds, with int(volume) * 100 on
\* the wire; raised: int() or client.send threw, which the function logs
sendProtoOANewOrderReq(call, raised) ==
    [kind |-> "order", positionId |-> 0, symbolId |-> call.symbolId,
     orderType |-> call.orderType, tradeSide |-> call.tradeSide,
     volume |-> call.volume,
     wire |-> IF call.numeric THEN call.volume * LotScale ELSE 0,
     raised |-> raised \/ ~call.numeric]

\* requires_auth, then webhook: status, body and the calls made
ListenerAnswer(req) ==
    IF ~req.authorization.present
          \/ ~check_auth(req.authorization.username,
                         req.authorization.password)
    THEN authenticate
    ELSE IF req.fields = {}
    THEN [status |-> 400, body |-> "Invalid data", calls |-> <<>>]
    ELSE IF "symbolId" \notin req.fields \/ "tradeSide" \notin req.fields
               \/ "volume" \notin req.fields
    THEN [status |-> 400, body |-> "Invalid data format", calls |-> <<>>]
    ELSE IF Upper(req.tradeSide) \notin Sides
    THEN [status |-> 400, body |-> "Trade side must be 'BUY' or 'SELL'",
          calls |-> <<>>]
    ELSE [status |-> 200, body |-> "Order placed",
          calls |-> <<OrderCall(req)>>]

listener_webhook(req, raised) ==
    /\ Len(requests) < MaxListenerCalls
    /\ received' = req
    /\ http' = ListenerAnswer(req).status
    /\ reply' = ListenerAnswer(req).body
    /\ requests' = requests \o
           [k \in 1..Len(ListenerAnswer(req).calls) |->
               sendProtoOANewOrderReq(ListenerAnswer(req).calls[k], raised)]
    /\ UNCHANGED <<is_authenticated, flask>>
    /\ UNCHANGED <<book, delayed, accepted, phase, intent, query, snapshot,
                   net_volume, same_side_volume, inflight, handled,
                   is_connected, session,
                   account, runs, executed>>

InitListener == InitWith({<<>>})

NextListener ==
    \E req \in ListenerRequests(MaxListenerVolume), raised \in BOOLEAN :
        listener_webhook(req, raised)

SpecListener == InitListener /\ [][NextListener]_vars

\* ------------------------------------------- the simple service (app.py)
\* Flask serves /webhook on the main thread while the reactor, started on
\* a thread of its own, runs connected, disconnected and the callbacks of
\* the application-auth request.  The request thread is modelled at the
\* points between which the reactor thread can run: before the request is
\* read, at place_order's test of is_authenticated, and past that test.
AppRequest(parsed, symbol, action, quantity, numeric) ==
    [parsed |-> parsed, symbol |-> symbol, action |-> action,
     quantity |-> quantity, numeric |-> numeric]

\* bodies: neither JSON nor "symbol,action,quantity"; a quantity float()
\* rejects; and parsed ones with a symbol that is an integer, is not one
\* or is missing, an action, and a quantity (0 when it is missing)
AppRequests(max) ==
    { AppRequest(FALSE, None, None, 0, TRUE),
      AppRequest(TRUE, "1", "buy", 0, FALSE) }
        \cup { AppRequest(TRUE, symbol, action, quantity, TRUE) :
                   symbol \in {"1", "EURUSD", None},
                   action \in {"buy", "SELL", None},
                   quantity \in (0..max) \cup {NaN} }

NotAnswered == [status |-> 0, body |-> None]

Failed500 == [status |-> 500, body |-> "Failed to process order"]

\* webhook up to the call of place_order: the except branch for a body
\* that cannot be read, the 400 for a missing or zero field
Validate(req) ==
    IF ~req.parsed \/ ~req.numeric THEN Failed500
    ELSE IF req.symbol = None \/ req.action = None \/ req.quantity = 0
    THEN [status |-> 400, body |-> "Missing required parameters"]
    ELSE NotAnswered

\* place_order's test: the order is built only past it
Gate(authenticated) == authenticated

\* the ProtoOANewOrderReq place_order builds; int() raises on a symbol
\* that is no integer and on a NaN volume
Composes(req) == req.symbol = "1" /\ req.quantity # NaN

AppOrderReq(req) ==
    [kind |-> "order", positionId |-> 0, symbolId |-> Symbol,
     tradeSide |-> IF req.action = "buy" THEN "BUY" ELSE "SELL",
     volume |-> req.quantity, wire |-> Encode(req.quantity),
     raised |-> FALSE]

\* the client connected: the application-auth request goes out
app_connected ==
    /\ session \in {"idle", "lost"}
    /\ session' = "application_auth"
    /\ UNCHANGED <<is_authenticated, flask>>
    /\ UNCHANGED <<book, http, delayed, accepted, phase, intent, query,
                   snapshot, net_volume, same_side_volume, requests,
                   inflight, handled, received, reply, is_connected,
                   account, runs, executed>>

\* callback of the application-auth request
on_auth_response(payloadType) ==
    /\ session = "application_auth"
    /\ session' = "answered"
    /\ is_authenticated' =
           IF payloadType = "PROTO_OA_APPLICATION_AUTH_RES" THEN TRUE
           ELSE is_authenticated
    /\ UNCHANGED flask
    /\ UNCHANGED <<book, http, delayed, accepted, phase, intent, query,
                   snapshot, net_volume, same_side_volume, requests,
                   inflight, handled, received, reply, is_connected,
                   account, runs, executed>>

app_disconnected ==
    /\ session \in {"application_auth", "answered"}
    /\ session' = "lost"
    /\ is_authenticated' = FALSE
    /\ UNCHANGED flask
    /\ UNCHANGED <<book, http, delayed, accepted, phase, intent, query,
                   snapshot, net_volume, same_side_volume, requests,
                   inflight, handled, received, reply, is_connected,
                   account, runs, executed>>

\* a POST to /webhook reaches the handler
app_webhook(req) ==
    /\ flask.at = "idle"
    /\ Len(requests) < MaxAppOrders
    /\ received' = req
    /\ http' = 0
    /\ reply' = None
    /\ flask' = [at |-> "webhook", authenticated |-> is_authenticated]
    /\ UNCHANGED <<book, delayed, accepted, phase, intent, query, snapshot,
                   net_volume, same_side_volume, requests, inflight,
                   handled, is_connected, session, account, runs, executed,
                   is_authenticated>>

\* webhook reads the body and calls place_order, or answers
app_validate ==
    /\ flask.at = "webhook"
    /\ http' = Validate(received).status
    /\ reply' = Validate(received).body
    /\ flask' = [flask EXCEPT !.at = IF Validate(received) = NotAnswered
                                      THEN "place_order" ELSE "idle"]
    /\ UNCHANGED <<book, delayed, accepted, phase, intent, query, snapshot,
                   net_volume, same_side_volume, requests, inflight,
                   handled, received, is_connected, session, account, runs,
                   executed, is_authenticated>>

\* place_order tests is_authenticated; its exception is answered 500
app_place_order ==
    /\ flask.at = "place_order"
    /\ IF Gate(is_authenticated)
       THEN /\ flask' = [flask EXCEPT !.at = "send"]
            /\ UNCHANGED <<http, reply>>
       ELSE /\ flask' = [flask EXCEPT !.at = "idle"]
            /\ http' = Failed500.status
            /\ reply' = Failed500.body
    /\ UNCHANGED <<book, delayed, accepted, phase, intent, query, snapshot,
                   net_volume, same_side_volume, requests, inflight,
                   handled, received, is_connected, session, account, runs,
                   executed, is_authenticated>>

\* place_order builds the request and hands it to client.send, webhook
\* answers 202; an exception while building is answered 500
app_send ==
    /\ flask.at = "send"
    /\ flask' = [flask EXCEPT !.at = "idle"]
    /\ IF Composes(received)
       THEN /\ requests' = Append(requests, AppOrderReq(received))
            /\ http' = 202
            /\ reply' = "Order processing"
       ELSE /\ http' = Failed500.status
            /\ reply' = Failed500.body
            /\ UNCHANGED requests
    /\ UNCHANGED <<book, delayed, accepted, phase, intent, query, snapshot,
                   net_volume, same_side_volume, inflight, handled,
                   received, is_connected, session, account, runs, executed,
                   is_authenticated>>

InitApp == InitWith({<<>>})

NextApp ==
    \/ app_connected
    \/ \E payloadType \in {"PROTO_OA_APPLICATION_AUTH_RES",
                           "PROTO_OA_ERROR_RES"} :
          on_auth_response(payloadType)
    \/ app_disconnected
    \/ \E req \in AppRequests(MaxAppQuantity) : app_webhook(req)
    \/ app_validate
    \/ app_place_order
    \/ app_send

SpecApp == InitApp /\ [][NextApp]_vars

\* --------------------------------- several reconciliations, one broker
\* The reactor runs one callback at a time, the broker applies the requests
\* it was sent whenever it gets to them.  The actions below are the
\* handlers above with the run's arguments kept per position query (the
\* closure place_order), so that a second intent can arrive while the
\* first one's requests are on their way.
\* the reconciliations that may be in progress together
Racers == <<"first", "second">>

RaceBooks ==
    Books(MaxRacePositions,
          { OpenPosition(s, u) : s \in Sides, u \in 1..MaxRaceUnits })

InitRace == InitWith(RaceBooks)

\* the broker applies one request to its positions: a close takes volume
\* off an open position that has that much, an order opens a new position
Apply(positions, req) ==
    IF req.kind = "close"
    THEN [i \in 1..Len(positions) |->
             LET p == positions[i]
             IN  IF /\ p.positionId = req.positionId
                    /\ p.positionStatus = "OPEN"
                    /\ req.wire > 0
                    /\ req.wire <= p.volume
                 THEN [p EXCEPT !.volume = @ - req.wire,
                                !.positionStatus =
                                    IF p.volume = req.wire THEN "CLOSED"
                                    ELSE "OPEN"]
                 ELSE p]
    ELSE IF req.kind = "order" /\ req.wire > 0
    THEN Append(positions,
                [positionId |-> Len(positions) + 1,
                 symbolId |-> req.symbolId, tradeSide |-> req.tradeSide,
                 volume |-> req.wire, positionStatus |-> "OPEN"])
    ELSE positions

\* requires_auth, then webhook, for a request that passes
race_webhook(req) ==
    /\ Len(runs) + Len(delayed) < Len(Racers)
    /\ Answer(req).status = 202
    /\ received' = req
    /\ http' = Answer(req).status
    /\ reply' = Answer(req).body
    /\ delayed' = Append(delayed,
                         [symbolId |-> req.symbolId,
                          tradeSide |-> Upper(req.tradeSide),
                          volume |-> req.volume])
    /\ UNCHANGED <<is_authenticated, flask>>
    /\ UNCHANGED <<book, accepted, phase, intent, query, snapshot,
                   net_volume, same_side_volume, requests, inflight,
                   handled, is_connected, session, account, runs, executed>>

\* process_order -> send_new_order_request -> get_existing_positions
race_process_order ==
    /\ delayed # <<>>
    /\ delayed' = Tail(delayed)
    /\ requests' = Append(requests, ReconcileReq(FALSE))
    /\ accepted' = Acknowledge(FALSE)
    /\ runs' = Append(runs,
                      [name |-> Racers[Len(runs) + 1],
                       query |-> Len(requests) + 1,
                       intent |-> Head(delayed), resolved |-> FALSE,
                       snapshot |-> <<>>, first |-> 1, last |-> 0])
    /\ UNCHANGED <<is_authenticated, flask>>
    /\ UNCHANGED <<book, http, phase, intent, query, snapshot, net_volume,
                   same_side_volume, inflight, handled, received, reply,
                   is_connected, session, account, executed>>

\* the broker answers run r's position query with what it holds now, and
\* on_reconcile_received and place_order run on that answer
race_reconcile_resolved(r) ==
    /\ r \in 1..Len(runs)
    /\ ~runs[r].resolved
    /\ LET call == runs[r].intent
           existing_positions ==
               on_reconcile_received(ReconcileRes(account), call.symbolId)
           st == Walk(existing_positions.positions, 1, call.tradeSide,
                      WalkStart(call.volume))
           out == Dispatch(st, call.symbolId, call.tradeSide, {})
       IN  /\ requests' = requests \o out
           /\ runs' = [runs EXCEPT
                          ![r].resolved = TRUE,
                          ![r].snapshot = existing_positions.positions,
                          ![r].first = Len(requests) + 1,
                          ![r].last = Len(requests) + Len(out)]
    /\ UNCHANGED <<is_authenticated, flask>>
    /\ UNCHANGED <<book, http, delayed, accepted, phase, intent, query,
                   snapshot, net_volume, same_side_volume, inflight,
                   handled, received, reply, is_connected, session,
                   account, executed>>

\* the broker gets to request k
broker_executes(k) ==
    /\ k \in 1..Len(requests)
    /\ k \notin executed
    /\ requests[k].kind # "reconcile"
    /\ ~requests[k].raised
    /\ account' = Apply(account, requests[k])
    /\ executed' = executed \cup {k}
    /\ UNCHANGED <<is_authenticated, flask>>
    /\ UNCHANGED <<book, http, delayed, accepted, phase, intent, query,
                   snapshot, net_volume, same_side_volume, requests,
                   inflight, handled, received, reply, is_connected,
                   session, runs>>

MaxRaceRequests == Len(Racers) * (MaxRacePositions + 2)

NextRace ==
    \/ \E req \in ValidRequests(MaxRaceVolume) : race_webhook(req)
    \/ race_process_order
    \/ \E r \in 1..Len(Racers) : race_reconcile_resolved(r)
    \/ \E k \in 1..MaxRaceRequests : broker_executes(k)

SpecRace == InitRace /\ [][NextRace]_vars

\* ------------------------------------------------- vocabulary of claims
RECURSIVE SumOver(_, _, _)
\* sum of F(i) over i in 1..n  (F is a function on 1..n)
SumOver(F, n, acc) == IF n = 0 THEN acc ELSE SumOver(F, n - 1, acc + F[n])

\* the positions place_order walked
Snapshot == snapshot.positions

IsClose(req) == req.kind = "close"
IsOrder(req) == req.kind = "order"

CloseReqs == SelectSeq(requests, IsClose)
OrderReqs == SelectSeq(requests, IsOrder)

\* close requests issued for one position
ClosesOf(position_id) ==
    { k \in 1..Len(CloseReqs) : CloseReqs[k].positionId = position_id }

ClosedVolume(position_id) ==
    SumOver([k \in 1..Len(CloseReqs) |->
                IF CloseReqs[k].positionId = position_id
                THEN CloseReqs[k].volume ELSE 0],
            Len(CloseReqs), 0)

ClosedWire(position_id) ==
    SumOver([k \in 1..Len(CloseReqs) |->
                IF CloseReqs[k].positionId = position_id
                THEN CloseReqs[k].wire ELSE 0],
            Len(CloseReqs), 0)

\* place_order ran on a snapshot and returned True
Planned == phase = "placed" /\ ~snapshot.isNone

IsSameSide(position) == position.tradeSide = intent.tradeSide
IsOpposite(position) == position.tradeSide = OppositeSide(intent.tradeSide)

\* summed volume of the snapshot's same-side positions
SameSideSum ==
    SumOver([i \in 1..Len(Snapshot) |->
                IF IsSameSide(Snapshot[i])
                THEN Lots(Snapshot[i].volume) ELSE 0],
            Len(Snapshot), 0)

\* summed volume of the opposite-side positions listed before index j
OppositeBefore(j) ==
    SumOver([i \in 1..Len(Snapshot) |->
                IF i < j /\ IsOpposite(Snapshot[i])
                THEN Lots(Snapshot[i].volume) ELSE 0],
            Len(Snapshot), 0)

\* what is left of the intent volume when the walk reaches index j
RemainingAt(j) ==
    IF OppositeBefore(j) >= intent.volume THEN 0
    ELSE intent.volume - OppositeBefore(j)

\* ----------------------------------------------------------------- C1
\* C1: every same-side position of the snapshot, wherever it stands among
\* the opposite-side ones, gets a close request for its full volume, and
\* the new order's volume includes the summed same-side volume.
C1_SameSideAlwaysClosed ==
    Planned =>
        \A i \in 1..Len(Snapshot) :
            IsSameSide(Snapshot[i]) =>
                /\ \E k \in ClosesOf(Snapshot[i].positionId) :
                       CloseReqs[k].volume = Lots(Snapshot[i].volume)
                /\ Len(OrderReqs) = 1
                /\ OrderReqs[1].volume >= SameSideSum

\* ----------------------------------------------------------------- C2
\* C2: once the remaining intent volume is zero, no close request, not
\* even one of volume 0, is issued for a later opposite-side position.
C2_WalkStopsAtZero ==
    Planned =>
        \A j \in 1..Len(Snapshot) :
            (IsOpposite(Snapshot[j]) /\ RemainingAt(j) = 0) =>
                ClosesOf(Snapshot[j].positionId) = {}

C4_NoOverClosing ==
    ~snapshot.isNone =>
        /\ \A i \in 1..Len(Snapshot) :
               /\ Cardinality(ClosesOf(Snapshot[i].positionId)) <= 1
               /\ ClosedVolume(Snapshot[i].positionId)
                      <= Lots(Snapshot[i].volume)
               /\ ClosedWire(Snapshot[i].positionId) <= Snapshot[i].volume
        /\ \A k \in 1..Len(CloseReqs) :
               \E i \in 1..Len(Snapshot) :
                   Snapshot[i].positionId = CloseReqs[k].positionId

\* a full and a partial closure in one reconciliation
C4_Witness ==
    /\ Planned
    /\ \E i, j \in 1..Len(Snapshot) :
          /\ i # j
          /\ ClosedVolume(Snapshot[i].positionId) = Lots(Snapshot[i].volume)
          /\ ClosedVolume(Snapshot[j].positionId) > 0
          /\ ClosedVolume(Snapshot[j].positionId) < Lots(Snapshot[j].volume)

C5_WitnessNoOrder ==
    /\ Planned
    /\ net_volume + same_side_volume = 0
    /\ OrderReqs = <<>>

ExactOpposite ==
    /\ Planned
    /\ Len(Snapshot) = 1
    /\ IsOpposite(Snapshot[1])
    /\ Lots(Snapshot[1].volume) = intent.volume

QueryFailed == query \in {"raised", "failure", "unextractable"}

C8_NothingAfterFailedQuery ==
    QueryFailed => (CloseReqs = <<>> /\ OrderReqs = <<>>)

\* ----------------------------------------------------------------- C9
\* C9: once the sending of a planned action has raised, no further
\* planned action of that reconciliation is issued.
C9_DispatchStopsOnTransportFailure ==
    \A k \in 1..Len(requests) :
        (requests[k].kind # "reconcile" /\ requests[k].raised)
            => k = Len(requests)

\* ---------------------------------------------------------------- C10
\* C10: the response to one dispatched close / order request - the
\* broker's acknowledgement, its error, or a failure - is handled by that
\* request's own callback only: the step takes that one request off the
\* outstanding set, leaves every sibling outstanding, builds no further
\* request, and logs exactly one entry for it; every request that was
\* sent is outstanding or was handled exactly once.
Dispatched(k) == requests[k].kind # "reconcile" /\ ~requests[k].raised

HandledOf(k) == { h \in handled : h.req = k }

C10_FailureIsolation ==
    [][ /\ \A k \in 1..Len(requests) :
              (Dispatched(k) /\ k \in inflight /\ k \notin inflight') =>
                  /\ requests' = requests
                  /\ inflight' = inflight \ {k}
                  /\ \E h \in handled' :
                        /\ h.req = k
                        /\ h \notin handled
                        /\ handled' = handled \cup {h}
        /\ \A k \in 1..Len(requests') :
              (requests'[k].kind # "reconcile" /\ ~requests'[k].raised) =>
                  /\ (k \in inflight') # (\E h \in handled' : h.req = k)
                  /\ \A g, h \in handled' :
                        (g.req = k /\ h.req = k) => g = h
      ]_vars

\* the broker rejected one action, a sibling was acknowledged, all settled
C10_Witness ==
    /\ inflight = {}
    /\ \E g, h \in handled :
          /\ g.req # h.req
          /\ Dispatched(g.req) /\ Dispatched(h.req)
          /\ g.outcome = "brokerError"
          /\ h.outcome = "ack"

\* two requests for the same planned action: closes of one position, or
\* two new-order requests
SameAction(a, b) ==
    /\ a.kind = b.kind
    /\ a.kind # "reconcile"
    /\ a.positionId = b.positionId

\* C11: no retries.  Requests are added to the log only by the step that
\* issues the position query and by the step that walks its answer; a
\* response, a failure, a disconnect or a reconnect adds none, and the log
\* never holds two requests for the same planned action.
C11_NoRetries ==
    [][ /\ requests' # requests =>
               \/ phase = "scheduled" /\ phase' \in {"querying", "failed"}
               \/ phase = "querying" /\ phase' \in {"placed", "errored"}
        /\ \A k, l \in 1..Len(requests') :
               k < l => ~SameAction(requests'[k], requests'[l]) ]_vars

\* a close failed, the connection was lost, every Deferred has fired
C11_Witness ==
    /\ phase = "placed"
    /\ session = "lost"
    /\ inflight = {}
    /\ \E h \in handled :
           /\ h.outcome = "failure"
           /\ requests[h.req].kind = "close"

\* C12: asynchronous acceptance.  The webhook gives its 202 while no broker
\* request has been issued, the first broker request goes out only after
\* that answer, and once the position query has been issued
\* send_new_order_request has returned True, in every later state.
C12_AsynchronousAcceptance ==
    [][ /\ (http # 202 /\ http' = 202) => requests' = <<>>
        /\ (requests = <<>> /\ requests' # <<>>) => http = 202
        /\ (requests' # <<>> /\ ~requests'[1].raised) =>
               accepted' = "True" ]_vars

\* accepted, and the position query failed afterwards
C12_Witness ==
    /\ http = 202
    /\ accepted = "True"
    /\ query = "failure"
    /\ phase = "failed"

\* an intent the orchestrator may be given
ValidIntent(call) == call.tradeSide \in Sides /\ Gt(call.volume, 0)

\* C13: ingress gate.  A request without the right token is answered 401; a
\* request with a missing field, a side outside {BUY, SELL} or a volume
\* <= 0 is answered 400; neither schedules a reconciliation or causes a
\* broker request; every intent that is scheduled or has reached the
\* orchestrator has a side in {BUY, SELL} and a volume > 0.
C13_IngressGate ==
    /\ received # NoRequest =>
           /\ received.token # "good" => http = 401
           /\ ( /\ received.token = "good"
                /\ \/ ~(RequiredFields \subseteq received.fields)
                   \/ Upper(received.tradeSide) \notin Sides
                   \/ received.numeric /\ Le(received.volume, 0) )
                 => http = 400
           /\ http \in {400, 401} =>
                 /\ delayed = <<>>
                 /\ intent = NoIntent
                 /\ requests = <<>>
    /\ \A k \in 1..Len(delayed) : ValidIntent(delayed[k])
    /\ intent # NoIntent => ValidIntent(intent)

\* the request carries the listener's user name and password
Authenticated(req) ==
    /\ req.authorization.present
    /\ req.authorization.username = WEBHOOK_USER
    /\ req.authorization.password = WEBHOOK_PASS

\* C14: on the basic-auth listener a request without credentials or with
\* wrong ones is answered 401 with the "Could not verify your access level
\* for that URL" body, and no new-order request is made for it.
C14_ListenerAuthGate ==
    [][ ~Authenticated(received') =>
           /\ http' = 401
           /\ reply' = authenticate.body
           /\ requests' = requests ]_vars

\* a wrong password is turned down after an order went through
C14_Witness ==
    /\ http = 401
    /\ received.authorization.present
    /\ received.authorization.username = WEBHOOK_USER
    /\ received.authorization.password # WEBHOOK_PASS
    /\ Len(requests) = 1

Sees(r, position_id) ==
    /\ runs[r].resolved
    /\ \E i \in 1..Len(runs[r].snapshot) :
           runs[r].snapshot[i].positionId = position_id

\* the volume run r's snapshot shows for position_id, on the wire
SeenWire(r, position_id) ==
    SumOver([i \in 1..Len(runs[r].snapshot) |->
                IF runs[r].snapshot[i].positionId = position_id
                THEN runs[r].snapshot[i].volume ELSE 0],
            Len(runs[r].snapshot), 0)

\* what run r asked to close of position_id, on the wire
RunClosedWire(r, position_id) ==
    SumOver([k \in 1..Len(requests) |->
                IF /\ runs[r].first <= k /\ k <= runs[r].last
                   /\ requests[k].kind = "close"
                   /\ requests[k].positionId = position_id
                THEN requests[k].wire ELSE 0],
            Len(requests), 0)

\* C16: the race of two reconciliations on one symbol.  Each reconciliation
\* asks to close of a position at most what its own snapshot shows, and
\* nothing of a position it does not see, so a position of the book is
\* asked to be closed for more than its volume only when two
\* reconciliations hold it in their snapshots; C16_Witness is that
\* interleaving.
C16_OverlappingSnapshots ==
    /\ \A r \in 1..Len(runs), i \in 1..Len(account) :
           RunClosedWire(r, i) <= SeenWire(r, i)
    /\ \A i \in 1..Len(book) :
           ClosedWire(book[i].positionId) > book[i].volume =>
               \E r1, r2 \in 1..Len(runs) :
                   /\ r1 # r2
                   /\ Sees(r1, book[i].positionId)
                   /\ Sees(r2, book[i].positionId)

\* both reconciliations saw the position at its full volume, before any
\* close of it was applied, and both asked to close it: twice its volume
C16_Witness ==
    \E i \in 1..Len(book) :
        /\ Len(runs) = 2
        /\ \A r \in 1..2 :
               /\ Sees(r, book[i].positionId)
               /\ SeenWire(r, book[i].positionId) = book[i].volume
               /\ RunClosedWire(r, book[i].positionId) = book[i].volume
        /\ ClosedWire(book[i].positionId) = 2 * book[i].volume

\* open volume on the symbol, whatever the side, on the wire
Gross(positions) ==
    SumOver([i \in 1..Len(positions) |->
                IF /\ positions[i].symbolId = Symbol
                   /\ positions[i].positionStatus = "OPEN"
                THEN positions[i].volume ELSE 0],
            Len(positions), 0)

RECURSIVE ApplyRange(_, _, _)
\* the positions once requests k..last have all been applied
ApplyRange(positions, k, last) ==
    IF k > last THEN positions
    ELSE ApplyRange(Apply(positions, requests[k]), k + 1, last)

Larger(a, b) == IF a >= b THEN a ELSE b

\* C17: transient exposure.  While the requests of a reconciliation that
\* runs alone are applied by the broker, in whatever order, the gross open
\* volume on the symbol never exceeds the larger of the volume before the
\* reconciliation and the volume once all its requests are applied.
C17_TransientExposureBound ==
    (Len(runs) = 1 /\ delayed = <<>> /\ runs[1].resolved) =>
        Gross(account) <=
            Larger(Gross(book),
                   Gross(ApplyRange(book, runs[1].first, runs[1].last)))

\* where the snapshot holds position position_id
SnapshotIndex(position_id) ==
    CHOOSE i \in 1..Len(Snapshot) : Snapshot[i].positionId = position_id

\* C18: issue order.  Every close request, for a same-side or an
\* opposite-side position, is issued before the new-order request, and the
\* close requests are issued in the order of their positions in the
\* snapshot.
C18_IssueOrder ==
    \A k, l \in 1..Len(requests) :
        /\ (IsClose(requests[k]) /\ IsOrder(requests[l])) => k < l
        /\ (IsClose(requests[k]) /\ IsClose(requests[l]) /\ k < l) =>
               SnapshotIndex(requests[k].positionId)
                   < SnapshotIndex(requests[l].positionId)

\* a same-side close, then an opposite-side close, then the order
C18_Witness ==
    /\ Len(requests) = 4
    /\ IsClose(requests[2]) /\ IsClose(requests[3]) /\ IsOrder(requests[4])
    /\ IsSameSide(Snapshot[SnapshotIndex(requests[2].positionId)])
    /\ IsOpposite(Snapshot[SnapshotIndex(requests[3].positionId)])

\* a response to a close or new-order request has been handled
AnswerHandled ==
    \E h \in handled : requests[h.req].kind # "reconcile"

\* C19: non-blocking dispatch.  The step that issues close and new-order
\* requests issues all of them and puts every one that went out in flight
\* at once; no response to any of them has been handled by then, and a
\* step that handles such a response issues nothing.
C19_NonBlockingDispatch ==
    [][ requests' # requests =>
           /\ ~AnswerHandled'
           /\ \A k \in (Len(requests) + 1)..Len(requests') :
                  ~requests'[k].raised => k \in inflight' ]_vars

\* the second close is answered while the first close and the order are
\* still in flight
C19_Witness ==
    /\ Len(requests) = 4
    /\ IsClose(requests[2]) /\ IsClose(requests[3]) /\ IsOrder(requests[4])
    /\ inflight = {2, 4}
    /\ \E h \in handled : h.req = 3 /\ h.outcome = "ack"

\* the position queries in the log
ReconcileReqs == SelectSeq(requests, LAMBDA req : req.kind = "reconcile")

\* what place_order issues for run r's intent on run r's snapshot
RunPlan(r) ==
    Dispatch(Walk(runs[r].snapshot, 1, runs[r].intent.tradeSide,
                  WalkStart(runs[r].intent.volume)),
             runs[r].intent.symbolId, runs[r].intent.tradeSide, {})

\* C20: single snapshot.  Each reconciliation issues exactly one position
\* query, its own, ahead of all its close and new-order requests; these
\* requests are the plan for the one answer it got, and no further query
\* is made.
C20_SingleSnapshot ==
    /\ Len(ReconcileReqs) = Len(runs)
    /\ \A r \in 1..Len(runs) :
           /\ requests[runs[r].query].kind = "reconcile"
           /\ \A q \in 1..Len(runs) :
                  q # r => runs[q].query # runs[r].query
           /\ runs[r].resolved =>
                  /\ runs[r].query < runs[r].first
                  /\ SubSeq(requests, runs[r].first, runs[r].last)
                         = RunPlan(r)
                  /\ \A k \in runs[r].first..runs[r].last :
                         requests[k].kind # "reconcile"

\* the second reconciliation queried for itself: the first one's close
\* had been applied, and its snapshot no longer shows the position
C20_Witness ==
    /\ Len(runs) = 2
    /\ runs[1].resolved /\ runs[2].resolved
    /\ runs[1].snapshot # <<>>
    /\ runs[2].snapshot = <<>>
    /\ runs[1].last >= runs[1].first
    /\ runs[2].last >= runs[2].first

\* FAILED: the position query failed and nothing was dispatched
Failed ==
    /\ phase = "failed"
    /\ inflight = {}
    /\ \A k \in 1..Len(requests) : requests[k].kind = "reconcile"

\* DONE: place_order ran and every request it sent has been resolved
Done ==
    /\ phase \in {"placed", "errored"}
    /\ inflight = {}
    /\ \A k \in 1..Len(requests) :
           requests[k].raised \/ \E h \in handled : h.req = k

\* C21: termination.  With every request resolved by the broker session,
\* a reconciliation the webhook accepted ends FAILED or DONE, and it never
\* issues more than one query, one close for each position of its
\* snapshot and one new order.
C21_Termination ==
    /\ (phase = "scheduled") ~> (Failed \/ Done)
    /\ [](Len(requests) <= 1 + Len(Snapshot) + 1)

\* DONE with the most requests the snapshot allows, each one answered
C21_Witness ==
    /\ Done
    /\ Len(Snapshot) = MaxLivePositions
    /\ Len(requests) = 1 + Len(Snapshot) + 1
    /\ Cardinality(handled) = Len(requests)

\* ---------------------------------------------------------------- C22
\* signed net exposure of the symbol: open BUY volume less open SELL volume
Exposure(positions) ==
    SumOver([i \in 1..Len(positions) |->
                IF /\ positions[i].symbolId = Symbol
                   /\ positions[i].positionStatus = "OPEN"
                THEN IF positions[i].tradeSide = "BUY"
                     THEN positions[i].volume ELSE 0 - positions[i].volume
                ELSE 0],
            Len(positions), 0)

Signed(trade_side, volume) == IF trade_side = "BUY" THEN volume ELSE 0 - volume

\* summed volume of the close requests for positions of one side
ClosedOn(trade_side) ==
    SumOver([i \in 1..Len(Snapshot) |->
                IF Snapshot[i].tradeSide = trade_side
                THEN ClosedVolume(Snapshot[i].positionId) ELSE 0],
            Len(Snapshot), 0)

OrderVolume == IF OrderReqs = <<>> THEN 0 ELSE OrderReqs[1].volume

C22_WitnessSkipped ==
    /\ Planned
    /\ Len(Snapshot) = 2
    /\ IsOpposite(Snapshot[1])
    /\ IsSameSide(Snapshot[2])
    /\ Len(CloseReqs) = 1
    /\ CloseReqs[1].volume < Lots(Snapshot[1].volume)
    /\ OrderReqs = <<>>

\* ---------------------------------------------------------------- C23
\* a position of the broker's book the reconciliation is about
InScope(position) ==
    /\ position.symbolId = intent.symbolId
    /\ position.positionStatus = "OPEN"

\* the positions of the book the reconciliation must leave alone
OutOfScope == { i \in 1..Len(book) : ~InScope(book[i]) }

\* C23: frame.  The snapshot holds exactly the book's OPEN positions of
\* the intent's symbol, in the broker's order; close requests go only to
\* those, the new order is for the intent's symbol, and a position of
\* another symbol or one that is not OPEN never gets a request.
C23_Frame ==
    ~snapshot.isNone =>
        /\ \A i \in 1..Len(Snapshot) :
               /\ InScope(Snapshot[i])
               /\ Snapshot[i].positionId \in 1..Len(book)
               /\ Snapshot[i] = book[Snapshot[i].positionId]
        /\ query = "positions" =>
               \A i \in 1..Len(book) :
                   InScope(book[i]) =>
                       \E j \in 1..Len(Snapshot) : Snapshot[j] = book[i]
        /\ \A j, l \in 1..Len(Snapshot) :
               j < l => Snapshot[j].positionId < Snapshot[l].positionId
        /\ \A k \in 1..Len(CloseReqs) :
               /\ CloseReqs[k].positionId \in 1..Len(book)
               /\ InScope(book[CloseReqs[k].positionId])
        /\ \A i \in OutOfScope : ClosesOf(book[i].positionId) = {}
        /\ \A k \in 1..Len(OrderReqs) :
               OrderReqs[k].symbolId = intent.symbolId

\* a book with a position of another symbol first, an OPEN one of the
\* symbol next and one that is no longer OPEN last: only the second is in
\* the snapshot and is closed, an order follows
C23_Witness ==
    /\ Planned
    /\ Len(book) = 3
    /\ book[1].symbolId = OtherSymbol
    /\ book[3].positionStatus = "CLOSED"
    /\ Len(Snapshot) = 1
    /\ Snapshot[1].positionId = 2
    /\ Len(CloseReqs) = 1
    /\ CloseReqs[1].positionId = 2
    /\ Len(OrderReqs) = 1

\* ---------------------------------------------------------------- C24
\* no new-order request is handed to the client while is_authenticated
\* is false
NoOrderUnauthenticated ==
    [][Len(requests') > Len(requests) => is_authenticated]_vars

\* is_authenticated turns true only in the callback of the
\* application-auth request, on an application-auth response, and is
\* false from a disconnect until the next such response
AuthenticatedByResponseOnly ==
    /\ [][(~is_authenticated /\ is_authenticated') =>
              (session = "application_auth" /\ session' = "answered")]_vars
    /\ [][session' = "lost" => ~is_authenticated']_vars
    /\ [](is_authenticated => session = "answered")

\* a webhook that came in while is_authenticated was false is answered
\* 500 and sends nothing
UnauthenticatedAnswered500 ==
    [][(flask.at # "idle" /\ flask'.at = "idle" /\ ~flask.authenticated) =>
          (http' = 500 /\ requests' = requests)]_vars

\* the same for the webhooks that get as far as place_order's test and
\* find is_authenticated false there
RejectedAtTest ==
    [][(flask.at = "place_order" /\ ~is_authenticated /\ flask' # flask) =>
          (http' = 500 /\ flask'.at = "idle" /\ requests' = requests)]_vars

\* C24: authentication gate of the simple service.  No new-order request
\* is sent while is_authenticated is false; is_authenticated becomes true
\* only on an application-auth response and is false after a disconnect
\* until the next one; a webhook received while it is false is answered
\* 500 and sends no order.
C24_AuthenticationGate ==
    /\ NoOrderUnauthenticated
    /\ AuthenticatedByResponseOnly
    /\ UnauthenticatedAnswered500

\* an order handed to the client after a disconnect had cleared
\* is_authenticated: the request thread was past place_order's test
C24_SentUnauthenticated ==
    /\ session = "lost"
    /\ ~is_authenticated
    /\ flask.at = "idle"
    /\ http = 202
    /\ Len(requests) = 1

\* an incomplete request that came in while is_authenticated was false,
\* answered 400
C24_Answered400 ==
    /\ flask = [at |-> "idle", authenticated |-> FALSE]
    /\ http = 400
    /\ session = "idle"

====
